---- MODULE Spec2Model ----
(***************************************************************************)
(* IgvmParams (src/src/igvm_params.rs): the facade over the IGVM parameter *)
(* blob.  new() locates the param page and the memory-map table through    *)
(* the offsets stored in the param block; the scalar queries read fields;  *)
(* get_memory_regions() validates the memory map (pass 1) and extracts the *)
(* MEMORY entries as byte regions (pass 2).                                *)
(*                                                                         *)
(* u64 and usize (64 bits on the x86-64 target) are modelled as the        *)
(* integers 0..MaxPage with arithmetic modulo MaxPage + 1.  An arithmetic  *)
(* overflow panics in a build with overflow checks (the dev profile) and   *)
(* wraps in a build without them (the release profile): overflow_checks    *)
(* is the build under which the program runs.                              *)
(***************************************************************************)
EXTENDS Integers, Sequences, FiniteSets, TLC

\* Largest value of a u64 / usize in the model.
MaxPage == 3

\* Number of slots of the memory-map table (PAGE_SIZE / size_of entry in
\* the source), scaled to the model.
IGVM_MEMORY_ENTRIES_PER_PAGE == 2

\* Bytes per page, scaled to the model's word width.
PAGE_SIZE == 2

Modulus == MaxPage + 1
Word == 0..MaxPage

EntryTypes == {"MEMORY", "PLATFORM_RESERVED"}

\* IGVM_VHS_MEMORY_MAP_ENTRY: the three fields the facade reads.
Entries ==
    [entry_type : EntryTypes,
     starting_gpa_page_number : Word,
     number_of_pages : Word]

Slots == 0..(IGVM_MEMORY_ENTRIES_PER_PAGE - 1)

\* IgvmMemoryMap: a fixed-capacity array of entries.
IgvmMemoryMap == [Slots -> Entries]

ZeroEntry ==
    [entry_type |-> "PLATFORM_RESERVED",
     starting_gpa_page_number |-> 0,
     number_of_pages |-> 0]

EmptyMap == [s \in Slots |-> ZeroEntry]

\* Inputs of the layout specification.
Bases == {0, 1}
Offsets == {1, 2}
FieldValues == {0, 1}
Addrs == {b + o : b \in Bases, o \in Offsets}

\* IgvmParamBlock: the header at the base address.
IgvmParamBlock ==
    [param_page_offset : Offsets,
     memory_map_offset : Offsets,
     param_area_size : FieldValues,
     kernel_base : FieldValues,
     kernel_size : FieldValues,
     cpuid_page : FieldValues,
     secrets_page : FieldValues]

VARIABLES
    addr,              \* the base address handed to new()
    param_block_mem,   \* memory read as IgvmParamBlock, by address
    param_page_mem,    \* memory read as IgvmParamPage (default_shared_pages), by address
    memory_map_mem,    \* memory read as IgvmMemoryMap, by address
    overflow_checks,   \* TRUE: overflow panics; FALSE: overflow wraps
    params,            \* the facade: the three references new() stores
    pc,                \* "start", "ready", "pass1", "pass2", "panic"
    i,                 \* loop index of the running pass
    idx,               \* last index used in memory_map[i], -1 if none
    number_of_entries,
    next_page_number,
    regions,
    ret                \* the last call: its name, how it ended, its value

vars ==
    <<addr, param_block_mem, param_page_mem, memory_map_mem, overflow_checks,
      params, pc, i, idx, number_of_entries, next_page_number, regions, ret>>

blob == <<addr, param_block_mem, param_page_mem, memory_map_mem, overflow_checks>>
locals == <<i, idx, number_of_entries, next_page_number, regions>>

NoParams ==
    [igvm_param_block |-> -1, igvm_param_page |-> -1, igvm_memory_map |-> -1]

NoRet == [op |-> "none", kind |-> "none", val |-> <<>>]

----------------------------------------------------------------------------
\* Arithmetic of the fixed-width integers.

AddOverflows(a, b) == a + b > MaxPage
WrappingAdd(a, b) == (a + b) % Modulus
MulOverflows(a, b) == a * b > MaxPage
WrappingMul(a, b) == (a * b) % Modulus

\* try_into() to usize: the value is kept when it fits.  usize is as wide
\* as u64 on the target, so every u32 and u64 fits and unwrap() never panics.
FitsUsize(v) == v <= MaxPage
TryIntoUsize(v) == v

----------------------------------------------------------------------------
\* The steps of get_memory_regions, as functions of the entry they read.

\* Mutants of EndOfEntries: the sentinel test on the wrong field, and no
\* sentinel test at all.
EndOfEntriesByStart(entry) == entry.starting_gpa_page_number = 0
EndOfEntriesNever(entry) == FALSE

\* line 82: the sentinel that ends the populated entries.
EndOfEntries(entry) == entry.number_of_pages = 0

\* line 85: the entry starts below the high-water mark.
StartsBelow(entry, next) == entry.starting_gpa_page_number < next

\* line 88: the addition overflows u64.
NextSuppliedOverflows(entry) ==
    AddOverflows(entry.starting_gpa_page_number, entry.number_of_pages)

\* line 88: next_supplied_page_number, as a build without overflow checks
\* computes it.
NextSuppliedPageNumber(entry) ==
    WrappingAdd(entry.starting_gpa_page_number, entry.number_of_pages)

\* line 89: the guard on the computed sum.
SuppliedBelow(entry, next) == NextSuppliedPageNumber(entry) < next

\* Mutant of InRange: an inclusive range, 0..=hi.
InRangeInclusive(k, hi) == k <= hi

\* lines 80 and 99: the range of a for loop, i in 0..hi.
InRange(k, hi) == k < hi

\* line 81 and 100: memory_map[i] is bounds-checked.
InBounds(k) == k \in Slots

\* line 101
IsMemory(entry) == entry.entry_type = "MEMORY"

\* lines 102-103: one of the two conversions to usize fails.
RegionUnwrapFails(entry) ==
    \/ ~FitsUsize(entry.starting_gpa_page_number)
    \/ ~FitsUsize(entry.number_of_pages)

\* lines 105-106: one of the two multiplications overflows usize.
RegionOverflows(entry) ==
    \/ MulOverflows(TryIntoUsize(entry.starting_gpa_page_number), PAGE_SIZE)
    \/ MulOverflows(TryIntoUsize(entry.number_of_pages), PAGE_SIZE)

\* lines 102-107: the region pushed for a MEMORY entry, as a build without
\* overflow checks computes it.
RegionOf(entry) ==
    [start |-> WrappingMul(TryIntoUsize(entry.starting_gpa_page_number), PAGE_SIZE),
     len |-> WrappingMul(TryIntoUsize(entry.number_of_pages), PAGE_SIZE)]

Ok(op, v) == [op |-> op, kind |-> "Ok", val |-> v]
ErrFirmware(op) == [op |-> op, kind |-> "Err", val |-> <<>>]
Value(op, v) == [op |-> op, kind |-> "value", val |-> v]
Running(op) == [op |-> op, kind |-> "running", val |-> <<>>]
Panicked(op) == [op |-> op, kind |-> "panic", val |-> <<>>]

----------------------------------------------------------------------------
\* The references of the facade, dereferenced.

ParamBlock == param_block_mem[params.igvm_param_block]
ParamPage == param_page_mem[params.igvm_param_page]
MemoryMap == memory_map_mem[params.igvm_memory_map]

----------------------------------------------------------------------------
\* Initial states.

\* The memory-map specification: every table at the memory-map address.
Init ==
    /\ addr = 0
    /\ param_block_mem =
         [a \in {0} |->
            [param_page_offset |-> 1, memory_map_offset |-> 2,
             param_area_size |-> 0, kernel_base |-> 0, kernel_size |-> 0,
             cpuid_page |-> 0, secrets_page |-> 0]]
    /\ param_page_mem = [a \in Addrs |-> [default_shared_pages |-> 0]]
    /\ memory_map_mem \in
         {[a \in Addrs |-> IF a = 2 THEN t ELSE EmptyMap] : t \in IgvmMemoryMap}
    /\ overflow_checks \in BOOLEAN
    /\ params = NoParams
    /\ pc = "start"
    /\ i = 0
    /\ idx = -1
    /\ number_of_entries = 0
    /\ next_page_number = 0
    /\ regions = <<>>
    /\ ret = NoRet

----------------------------------------------------------------------------
\* line 38
ParamPageAddress(base, param_block) ==
    base + TryIntoUsize(param_block.param_page_offset)

\* Mutant of MemoryMapAddress: the table located through the other offset.
MemoryMapAddressByPageOffset(base, param_block) ==
    base + TryIntoUsize(param_block.param_page_offset)

\* line 40
MemoryMapAddress(base, param_block) ==
    base + TryIntoUsize(param_block.memory_map_offset)

\* new(addr), lines 36-48.
New ==
    /\ pc = "start"
    /\ LET param_block == param_block_mem[addr]
       IN params' = [igvm_param_block |-> addr,
                     igvm_param_page |-> ParamPageAddress(addr, param_block),
                     igvm_memory_map |-> MemoryMapAddress(addr, param_block)]
    /\ pc' = "ready"
    /\ UNCHANGED <<blob, locals, ret>>

\* get_memory_regions(), lines 75-79: entry, the locals of pass 1.
GetMemoryRegions ==
    /\ pc = "ready"
    /\ pc' = "pass1"
    /\ number_of_entries' = 0
    /\ next_page_number' = 0
    /\ i' = 0
    /\ idx' = -1
    /\ regions' = <<>>
    /\ ret' = Running("get_memory_regions")
    /\ UNCHANGED <<blob, params>>

\* lines 80, 94-99: the range of pass 1 is exhausted; pass 2 begins.
Pass1Exhausted ==
    /\ pc = "pass1"
    /\ ~InRange(i, IGVM_MEMORY_ENTRIES_PER_PAGE)
    /\ pc' = "pass2"
    /\ i' = 0
    /\ UNCHANGED <<blob, params, idx, number_of_entries, next_page_number, regions, ret>>

\* lines 81-84, 98-99: a zero-length entry breaks out of pass 1.
Pass1Break ==
    /\ pc = "pass1"
    /\ InRange(i, IGVM_MEMORY_ENTRIES_PER_PAGE)
    /\ InBounds(i)
    /\ EndOfEntries(MemoryMap[i])
    /\ idx' = i
    /\ pc' = "pass2"
    /\ i' = 0
    /\ UNCHANGED <<blob, params, number_of_entries, next_page_number, regions, ret>>

\* lines 85-87: the entry starts below the high-water mark.
Pass1ErrStart ==
    /\ pc = "pass1"
    /\ InRange(i, IGVM_MEMORY_ENTRIES_PER_PAGE)
    /\ InBounds(i)
    /\ ~EndOfEntries(MemoryMap[i])
    /\ StartsBelow(MemoryMap[i], next_page_number)
    /\ idx' = i
    /\ pc' = "ready"
    /\ ret' = ErrFirmware("get_memory_regions")
    /\ UNCHANGED <<blob, params, i, number_of_entries, next_page_number, regions>>

\* line 81: an index outside the array panics; line 88: so does the
\* addition when it overflows in a build with overflow checks.
Pass1Panic ==
    /\ pc = "pass1"
    /\ InRange(i, IGVM_MEMORY_ENTRIES_PER_PAGE)
    /\ \/ ~InBounds(i)
       \/ /\ InBounds(i)
          /\ ~EndOfEntries(MemoryMap[i])
          /\ ~StartsBelow(MemoryMap[i], next_page_number)
          /\ NextSuppliedOverflows(MemoryMap[i])
          /\ overflow_checks
    /\ idx' = i
    /\ pc' = "panic"
    /\ ret' = Panicked("get_memory_regions")
    /\ UNCHANGED <<blob, params, i, number_of_entries, next_page_number, regions>>

\* lines 88-91: the computed sum is below the high-water mark.
Pass1ErrSupplied ==
    /\ pc = "pass1"
    /\ InRange(i, IGVM_MEMORY_ENTRIES_PER_PAGE)
    /\ InBounds(i)
    /\ ~EndOfEntries(MemoryMap[i])
    /\ ~StartsBelow(MemoryMap[i], next_page_number)
    /\ ~(NextSuppliedOverflows(MemoryMap[i]) /\ overflow_checks)
    /\ SuppliedBelow(MemoryMap[i], next_page_number)
    /\ idx' = i
    /\ pc' = "ready"
    /\ ret' = ErrFirmware("get_memory_regions")
    /\ UNCHANGED <<blob, params, i, number_of_entries, next_page_number, regions>>

\* Mutant of Pass1Accept: a single pass that pushes the region of a MEMORY
\* entry as soon as the entry is validated.
Pass1AcceptAndPush ==
    /\ pc = "pass1"
    /\ InRange(i, IGVM_MEMORY_ENTRIES_PER_PAGE)
    /\ InBounds(i)
    /\ ~EndOfEntries(MemoryMap[i])
    /\ ~StartsBelow(MemoryMap[i], next_page_number)
    /\ ~(NextSuppliedOverflows(MemoryMap[i]) /\ overflow_checks)
    /\ ~SuppliedBelow(MemoryMap[i], next_page_number)
    /\ idx' = i
    /\ next_page_number' = NextSuppliedPageNumber(MemoryMap[i])
    /\ number_of_entries' = number_of_entries + 1
    /\ i' = i + 1
    /\ regions' = IF IsMemory(MemoryMap[i])
                  THEN Append(regions, RegionOf(MemoryMap[i]))
                  ELSE regions
    /\ UNCHANGED <<blob, params, pc, ret>>

\* lines 92-93: the entry is accepted.
Pass1Accept ==
    /\ pc = "pass1"
    /\ InRange(i, IGVM_MEMORY_ENTRIES_PER_PAGE)
    /\ InBounds(i)
    /\ ~EndOfEntries(MemoryMap[i])
    /\ ~StartsBelow(MemoryMap[i], next_page_number)
    /\ ~(NextSuppliedOverflows(MemoryMap[i]) /\ overflow_checks)
    /\ ~SuppliedBelow(MemoryMap[i], next_page_number)
    /\ idx' = i
    /\ next_page_number' = NextSuppliedPageNumber(MemoryMap[i])
    /\ number_of_entries' = number_of_entries + 1
    /\ i' = i + 1
    /\ UNCHANGED <<blob, params, pc, regions, ret>>

\* lines 99-101, 108: an entry of another type is skipped.
Pass2Skip ==
    /\ pc = "pass2"
    /\ InRange(i, number_of_entries)
    /\ InBounds(i)
    /\ ~IsMemory(MemoryMap[i])
    /\ idx' = i
    /\ i' = i + 1
    /\ UNCHANGED <<blob, params, pc, number_of_entries, next_page_number, regions, ret>>

\* line 100: an index outside the array panics; lines 102-103: so does a
\* failed conversion; lines 105-106: so does a multiplication that
\* overflows in a build with overflow checks.
Pass2Panic ==
    /\ pc = "pass2"
    /\ InRange(i, number_of_entries)
    /\ \/ ~InBounds(i)
       \/ /\ InBounds(i)
          /\ IsMemory(MemoryMap[i])
          /\ \/ RegionUnwrapFails(MemoryMap[i])
             \/ RegionOverflows(MemoryMap[i]) /\ overflow_checks
    /\ idx' = i
    /\ pc' = "panic"
    /\ ret' = Panicked("get_memory_regions")
    /\ UNCHANGED <<blob, params, i, number_of_entries, next_page_number, regions>>

\* lines 101-108: a MEMORY entry is pushed as a region in bytes.
Pass2Push ==
    /\ pc = "pass2"
    /\ InRange(i, number_of_entries)
    /\ InBounds(i)
    /\ IsMemory(MemoryMap[i])
    /\ ~RegionUnwrapFails(MemoryMap[i])
    /\ ~(RegionOverflows(MemoryMap[i]) /\ overflow_checks)
    /\ idx' = i
    /\ regions' = Append(regions, RegionOf(MemoryMap[i]))
    /\ i' = i + 1
    /\ UNCHANGED <<blob, params, pc, number_of_entries, next_page_number, ret>>

\* lines 99, 111: the range of pass 2 is exhausted; Ok(regions).
Pass2Return ==
    /\ pc = "pass2"
    /\ ~InRange(i, number_of_entries)
    /\ pc' = "ready"
    /\ ret' = Ok("get_memory_regions", regions)
    /\ UNCHANGED <<blob, params, locals>>

Step ==
    \/ Pass1Exhausted
    \/ Pass1Break
    \/ Pass1ErrStart
    \/ Pass1Panic
    \/ Pass1ErrSupplied
    \/ Pass1Accept
    \/ Pass2Skip
    \/ Pass2Panic
    \/ Pass2Push
    \/ Pass2Return

Next ==
    \/ New
    \/ GetMemoryRegions
    \/ Step

Spec == Init /\ [][Next]_vars

----------------------------------------------------------------------------
\* The scalar queries.

\* size(), lines 50-55.
Size ==
    /\ pc = "ready"
    /\ ret' = Value("size", TryIntoUsize(ParamBlock.param_area_size))
    /\ UNCHANGED <<blob, params, pc, locals>>

\* find_kernel_region(), lines 57-61.
FindKernelRegion ==
    /\ pc = "ready"
    /\ LET kernel_base == ParamBlock.kernel_base
           kernel_size == TryIntoUsize(ParamBlock.kernel_size)
       IN ret' = Ok("find_kernel_region", [start |-> kernel_base, len |-> kernel_size])
    /\ UNCHANGED <<blob, params, pc, locals>>

\* page_state_change_required(), lines 63-65.
PageStateChangeRequired ==
    /\ pc = "ready"
    /\ ret' = Value("page_state_change_required", ParamPage.default_shared_pages # 0)
    /\ UNCHANGED <<blob, params, pc, locals>>

\* get_cpuid_page_address(), lines 67-69.
GetCpuidPageAddress ==
    /\ pc = "ready"
    /\ ret' = Value("get_cpuid_page_address", ParamBlock.cpuid_page)
    /\ UNCHANGED <<blob, params, pc, locals>>

\* get_secrets_page_address(), lines 71-73.
GetSecretsPageAddress ==
    /\ pc = "ready"
    /\ ret' = Value("get_secrets_page_address", ParamBlock.secrets_page)
    /\ UNCHANGED <<blob, params, pc, locals>>

\* A table with one usable region, and the tables of the layout
\* specification.
OneRegionMap ==
    [s \in Slots |->
        IF s = 0
        THEN [entry_type |-> "MEMORY", starting_gpa_page_number |-> 0,
              number_of_pages |-> 1]
        ELSE ZeroEntry]

LayoutMaps == {EmptyMap, OneRegionMap}

\* The layout specification: every header, at every base, over a memory
\* that holds a param page and a memory map at every address.
LayoutInit ==
    /\ addr \in Bases
    /\ param_block_mem \in [{addr} -> IgvmParamBlock]
    /\ param_page_mem \in [Addrs -> [default_shared_pages : FieldValues]]
    /\ memory_map_mem \in [Addrs -> LayoutMaps]
    /\ overflow_checks \in BOOLEAN
    /\ params = NoParams
    /\ pc = "start"
    /\ i = 0
    /\ idx = -1
    /\ number_of_entries = 0
    /\ next_page_number = 0
    /\ regions = <<>>
    /\ ret = NoRet

\* The steps of get_memory_regions that the tables of LayoutMaps take.
LayoutNext ==
    \/ New
    \/ Size
    \/ FindKernelRegion
    \/ PageStateChangeRequired
    \/ GetCpuidPageAddress
    \/ GetSecretsPageAddress
    \/ GetMemoryRegions
    \/ Pass1Break
    \/ Pass1Accept
    \/ Pass2Push
    \/ Pass2Return

LayoutSpec == LayoutInit /\ [][LayoutNext]_vars

\* get_memory_regions() runs to its end once called: the code has no
\* suspension point.
FairSpec == Init /\ [][Next]_vars /\ WF_vars(Step)

----------------------------------------------------------------------------
\* get_memory_regions as a function of the table and the build.

RECURSIVE PassOne(_, _, _, _, _)
\* lines 78-94: the number of entries, or the failure.
PassOne(t, k, next, n, checks) ==
    IF ~InRange(k, IGVM_MEMORY_ENTRIES_PER_PAGE) THEN [kind |-> "Ok", val |-> n]
    ELSE IF ~InBounds(k) THEN [kind |-> "panic", val |-> 0]
    ELSE IF EndOfEntries(t[k]) THEN [kind |-> "Ok", val |-> n]
    ELSE IF StartsBelow(t[k], next) THEN [kind |-> "Err", val |-> 0]
    ELSE IF NextSuppliedOverflows(t[k]) /\ checks THEN [kind |-> "panic", val |-> 0]
    ELSE IF SuppliedBelow(t[k], next) THEN [kind |-> "Err", val |-> 0]
    ELSE PassOne(t, k + 1, NextSuppliedPageNumber(t[k]), n + 1, checks)

RECURSIVE PassTwo(_, _, _, _, _)
\* lines 98-111: the regions, or the failure.
PassTwo(t, k, n, acc, checks) ==
    IF ~InRange(k, n) THEN [kind |-> "Ok", val |-> acc]
    ELSE IF ~InBounds(k) THEN [kind |-> "panic", val |-> <<>>]
    ELSE IF ~IsMemory(t[k]) THEN PassTwo(t, k + 1, n, acc, checks)
    ELSE IF RegionUnwrapFails(t[k]) THEN [kind |-> "panic", val |-> <<>>]
    ELSE IF RegionOverflows(t[k]) /\ checks THEN [kind |-> "panic", val |-> <<>>]
    ELSE PassTwo(t, k + 1, n, Append(acc, RegionOf(t[k])), checks)

\* lines 75-112
MemoryRegionsOf(t, checks) ==
    LET one == PassOne(t, 0, 0, 0, checks)
    IN IF one.kind = "Ok"
       THEN PassTwo(t, 0, one.val, <<>>, checks)
       ELSE [kind |-> one.kind, val |-> <<>>]

----------------------------------------------------------------------------
\* Vocabulary of the properties, stated on the table itself.

Capacity == IGVM_MEMORY_ENTRIES_PER_PAGE

HasSentinel(t) == \E k \in Slots : t[k].number_of_pages = 0

\* Index of the first slot with number_of_pages = 0; the capacity if none.
FirstZero(t) ==
    IF HasSentinel(t)
    THEN CHOOSE k \in Slots :
           /\ t[k].number_of_pages = 0
           /\ \A j \in Slots : j < k => t[j].number_of_pages # 0
    ELSE Capacity

\* The populated entries: those before the first zero-length slot.
Populated(t) == 0..(FirstZero(t) - 1)

\* The end of an entry as a true, unbounded page number.
TrueEnd(e) == e.starting_gpa_page_number + e.number_of_pages

\* Consecutive populated entries are ordered and disjoint in true page numbers.
Ordered(t) ==
    \A k \in Populated(t) :
        (k + 1) \in Populated(t) =>
            t[k + 1].starting_gpa_page_number >= TrueEnd(t[k])

\* Some populated entry's start + number_of_pages exceeds the word.
SomeEndOverflows(t) == \E k \in Populated(t) : TrueEnd(t[k]) > MaxPage

Called == pc # "start" /\ ret.op = "get_memory_regions"
Returned == pc = "ready" /\ ret.op = "get_memory_regions"
ReturnedOk == Returned /\ ret.kind = "Ok"
ReturnedErr == Returned /\ ret.kind = "Err"
Panic == pc = "panic"

RECURSIVE ExpectedRegions(_, _)
\* The first n entries of t in table order, MEMORY entries only, each as
\* the region (start * PAGE_SIZE, number_of_pages * PAGE_SIZE) in true bytes.
ExpectedRegions(t, n) ==
    IF n = 0 THEN <<>>
    ELSE LET e == t[n - 1]
             rest == ExpectedRegions(t, n - 1)
         IN IF e.entry_type = "MEMORY"
            THEN Append(rest, [start |-> e.starting_gpa_page_number * PAGE_SIZE,
                               len |-> e.number_of_pages * PAGE_SIZE])
            ELSE rest

\* The table with every slot after the first zero-length slot cleared.
Truncated(t) == [k \in Slots |-> IF k <= FirstZero(t) THEN t[k] ELSE ZeroEntry]

----------------------------------------------------------------------------
\* C1: whenever get_memory_regions returns Ok, every pair of consecutive
\* populated entries i, i+1, of any entry type, satisfies
\* start(i+1) >= start(i) + len(i) as true (non-wrapped) page numbers.
C1_OkImpliesOrdered == ReturnedOk => Ordered(MemoryMap)

\* C2: for every table whose populated entries are ordered and
\* non-overlapping, with no start + len exceeding the word, the query ends
\* by returning Ok.
C2_OrderedImpliesOk ==
    (/\ Returned \/ (Panic /\ Called)
     /\ Ordered(MemoryMap)
     /\ ~SomeEndOverflows(MemoryMap)) => ret.kind = "Ok"

\* C3: when get_memory_regions returns Ok, the list is exactly the first N
\* populated entries in table order, MEMORY entries only, each mapped to
\* (start * PAGE_SIZE, number_of_pages * PAGE_SIZE).
C3_OkListIsFilteredPrefix ==
    ReturnedOk => ret.val = ExpectedRegions(MemoryMap, FirstZero(MemoryMap))

\* C4: get_memory_regions returns Err(Firmware) for every table with a
\* populated entry whose start + number_of_pages overflows the word,
\* whatever the position of that entry.
C4_OverflowRejected ==
    (Returned /\ SomeEndOverflows(MemoryMap)) => ret.kind = "Err"

\* C7: every returned list is in ascending order of start address with
\* pairwise disjoint byte ranges: start(r(k+1)) >= start(r(k)) + length(r(k)).
C7_RegionsAscendingDisjoint ==
    ReturnedOk =>
        \A k \in 1..(Len(ret.val) - 1) :
            ret.val[k + 1].start >= ret.val[k].start + ret.val[k].len

----------------------------------------------------------------------------
\* The outcome of the call: how it ended and what it returned.
Outcome == [kind |-> ret.kind, val |-> ret.val]

\* The number of MEMORY entries among the first n slots of t.
MemoryCount(t, n) ==
    Cardinality({k \in 0..(n - 1) : t[k].entry_type = "MEMORY"})

\* C5: get_memory_regions fails atomically: no region is appended before
\* pass 1 has validated every populated entry, a run that ends in
\* Err(Firmware) has produced no region, and a run that returns returns
\* either Err(Firmware) or the complete list of pass 2, never a partial one.
C5_FailsAtomically ==
    Called =>
        /\ pc = "pass1" => regions = <<>>
        /\ regions # <<>> => number_of_entries = FirstZero(MemoryMap)
        /\ ReturnedErr => regions = <<>>
        /\ Returned => ret.kind \in {"Ok", "Err"}
        /\ ReturnedOk =>
              /\ ret.val = regions
              /\ i = number_of_entries
              /\ number_of_entries = FirstZero(MemoryMap)
              /\ Len(regions) = MemoryCount(MemoryMap, number_of_entries)

\* C5 witness: Err(Firmware) is returned at the second entry, after a valid
\* MEMORY entry that pass 2 would have emitted, and no region was produced.
C5_Witness ==
    /\ ReturnedErr
    /\ regions = <<>>
    /\ idx = 1
    /\ MemoryMap[0].entry_type = "MEMORY"
    /\ MemoryMap[0].number_of_pages # 0

\* C6: if the first table entry has number_of_pages = 0, the query returns
\* Ok with an empty list and fails in no way, whatever the other slots hold.
C6_EmptyMapOk ==
    (Called /\ MemoryMap[0].number_of_pages = 0) =>
        /\ ~Panic
        /\ Returned => ret = Ok("get_memory_regions", <<>>)

\* C6 witness: an empty list is returned although the slot after the
\* sentinel holds a populated MEMORY entry and the sentinel slot itself has
\* a non-zero start and MEMORY type.
C6_Witness ==
    /\ Returned
    /\ ret = Ok("get_memory_regions", <<>>)
    /\ MemoryMap[0].number_of_pages = 0
    /\ MemoryMap[0].starting_gpa_page_number # 0
    /\ MemoryMap[0].entry_type = "MEMORY"
    /\ MemoryMap[1].number_of_pages # 0
    /\ MemoryMap[1].entry_type = "MEMORY"

\* C8: for a facade built by new(B) over a header with offsets O1 and O2,
\* page_state_change_required() is true iff default_shared_pages at B + O1
\* is non-zero, get_memory_regions() is the function of the table at
\* B + O2, and size(), find_kernel_region(), get_cpuid_page_address() and
\* get_secrets_page_address() return the header fields at B without failing.
C8_LayoutRoundTrip ==
    pc # "start" =>
        LET B == addr
            H == param_block_mem[B]
            O1 == H.param_page_offset
            O2 == H.memory_map_offset
        IN /\ ret.op = "size" => ret = Value("size", H.param_area_size)
           /\ ret.op = "find_kernel_region" =>
                 ret = Ok("find_kernel_region",
                          [start |-> H.kernel_base, len |-> H.kernel_size])
           /\ ret.op = "page_state_change_required" =>
                 /\ ret.kind = "value"
                 /\ ret.val = (param_page_mem[B + O1].default_shared_pages # 0)
           /\ ret.op = "get_cpuid_page_address" =>
                 ret = Value("get_cpuid_page_address", H.cpuid_page)
           /\ ret.op = "get_secrets_page_address" =>
                 ret = Value("get_secrets_page_address", H.secrets_page)
           /\ (ret.op = "get_memory_regions" /\ ret.kind # "running") =>
                 Outcome = MemoryRegionsOf(memory_map_mem[B + O2], overflow_checks)
           /\ Panic => ret.op = "get_memory_regions"

\* C8 witness: at a non-zero base with two different offsets, the region
\* list of the table at B + O2 is returned while the table at B + O1 is
\* another one, and the param page at B + O2 differs from the one at B + O1.
C8_Witness ==
    LET H == param_block_mem[addr]
        O1 == H.param_page_offset
        O2 == H.memory_map_offset
    IN /\ Returned
       /\ addr # 0
       /\ O1 # O2
       /\ ret = Ok("get_memory_regions", <<[start |-> 0, len |-> PAGE_SIZE]>>)
       /\ memory_map_mem[addr + O1] = EmptyMap
       /\ param_page_mem[addr + O1].default_shared_pages # 0
       /\ param_page_mem[addr + O2].default_shared_pages = 0

Scanning == pc \in {"pass1", "pass2"}

\* C10: get_memory_regions always terminates; it never indexes the table at
\* or beyond its capacity in either pass; each pass performs at most
\* capacity iterations and N <= capacity throughout; for a table without a
\* zero-length sentinel N equals the capacity when pass 1 succeeds.
C10_BoundedScan ==
    /\ [](/\ idx < Capacity
          /\ number_of_entries <= Capacity
          /\ pc = "pass1" => (i <= Capacity /\ number_of_entries = i)
          /\ pc = "pass2" => i <= number_of_entries
          /\ (pc = "pass2" /\ ~HasSentinel(MemoryMap)) =>
                number_of_entries = Capacity)
    /\ (Scanning ~> ~Scanning)

\* C10 witness: Ok is returned over a table with no zero-length slot, every
\* slot having been counted.
C10_Witness ==
    /\ ReturnedOk
    /\ ~HasSentinel(MemoryMap)
    /\ number_of_entries = Capacity
    /\ idx = Capacity - 1

====
